---- MODULE Spec2Model ----
(***************************************************************************)
(* Storage strategies of topaz arrays: rstrategies.py (the strategy        *)
(* engine) and topaz/objects/arrayobject.py (the host array and the four   *)
(* registered kinds Empty, Int, Float, Object).  The kinds and mixins of   *)
(* rstrategies.py that the host does not register (SingleValue, Tagging,   *)
(* WeakGeneric, SafeIndexingMixin) are exercised by a collection of their  *)
(* own, and the construction of the registry by every generalization       *)
(* graph over the four classes.  Further specifications call               *)
(* switch_strategy with any target kind, pop on a collection of any kind,  *)
(* and follow one host array through its life.                             *)
(*                                                                         *)
(* Strategy instances live in a heap and are designated by their index,    *)
(* so that "the instance the host holds" and "the instance an operation    *)
(* runs on" stay different things, as in the code.  Every method is a      *)
(* recursive operator over a world W = [heap, strategy, err, log, ret];    *)
(* a raised Python exception is W.err, and every operator returns its      *)
(* world unchanged once an exception is pending.                           *)
(***************************************************************************)
EXTENDS Integers, Sequences, FiniteSets, TLC

\* ---------------------------------------------------------------- bounds
MaxSize == 3
MaxInsert == 2
MaxCopySize == 2
MaxLibSize == 2

\* the host arrays: an array and the array its deep copy creates
Hosts == {1, 2}

\* ---------------------------------------------------------------- values
\* Boxed values carry their class and their payload; unboxed ones are the
\* machine int / float stored by IntStrategy / FloatStrategy.
Fix(n) == [t |-> "W_FixnumObject", n |-> n]
Flo(n) == [t |-> "W_FloatObject", n |-> n]
Obj(n) == [t |-> "W_Object", n |-> n]
RawInt(n) == [t |-> "int", n |-> n]
RawFloat(n) == [t |-> "float", n |-> n]
w_nil == Obj(0)

Values == {Fix(1), Fix(2), Flo(1), w_nil}

RECURSIVE SeqsUpTo(_, _)
SeqsUpTo(S, n) ==
    IF n = 0 THEN {<<>>}
    ELSE LET shorter == SeqsUpTo(S, n - 1)
         IN shorter \cup {Append(s, x) : s \in {q \in shorter : Len(q) = n - 1}, x \in S}

NoErr == "none"

\* ---------------------------------------------------------------- kinds
ObjectStrategy == "ObjectStrategy"
IntStrategy == "IntStrategy"
FloatStrategy == "FloatStrategy"
EmptyStrategy == "EmptyStrategy"
NoKind == "NoKind"

\* kinds of the library a client composes from the strategy mixins
SingleValueStrategy == "SingleValueStrategy"
TaggingStrategy == "TaggingStrategy"
WeakGenericStrategy == "WeakGenericStrategy"

Kinds == {ObjectStrategy, IntStrategy, FloatStrategy, EmptyStrategy}

\* classes found by collect_subclasses(AbstractStrategy), in definition order
all_strategy_classes == <<ObjectStrategy, IntStrategy, FloatStrategy, EmptyStrategy>>

\* as _generalizations, IntStrategy declaring no generalization
_generalizations_short(kind) ==
    CASE kind = EmptyStrategy -> <<FloatStrategy, IntStrategy, ObjectStrategy>>
      [] kind = FloatStrategy -> <<ObjectStrategy>>
      [] OTHER -> <<>>

\* the generalize= lists of the @rstrat.strategy decorators
_generalizations(kind) ==
    CASE kind = EmptyStrategy -> <<FloatStrategy, IntStrategy, ObjectStrategy>>
      [] kind = IntStrategy -> <<ObjectStrategy>>
      [] kind = FloatStrategy -> <<ObjectStrategy>>
      [] kind = SingleValueStrategy -> <<TaggingStrategy, ObjectStrategy>>
      [] kind = TaggingStrategy -> <<ObjectStrategy>>
      [] OTHER -> <<>>

contained_type(kind) ==
    CASE kind = IntStrategy -> "W_FixnumObject"
      [] kind = FloatStrategy -> "W_FloatObject"
      [] kind = TaggingStrategy -> "W_FixnumObject"
      [] OTHER -> "none"

unwrap(kind, w_val) ==
    CASE kind = IntStrategy -> RawInt(w_val.n)
      [] kind = FloatStrategy -> RawFloat(w_val.n)
      [] kind = TaggingStrategy -> RawInt(w_val.n)
      [] OTHER -> w_val

\* as wrap, every raw number boxed as a float
wrap_float(kind, val) ==
    CASE kind \in {IntStrategy, FloatStrategy, TaggingStrategy} -> Flo(val.n)
      [] OTHER -> val

wrap(kind, val) ==
    CASE kind = IntStrategy -> Fix(val.n)
      [] kind = FloatStrategy -> Flo(val.n)
      [] kind = TaggingStrategy -> Fix(val.n)
      [] OTHER -> val

\* SingleValueStrategy.value(): the one value a SingleValue instance holds
single_value == w_nil

\* TaggingStrategy: the boxed value T that stands for the sentinel, and the
\* unboxed sentinel s itself
wrapped_tagged_value == w_nil
unwrapped_tagged_value == RawInt(2)

\* weakref.ref(value); alive turns FALSE when the referent is reclaimed
WeakRef(referent) == [t |-> "weakref", ref |-> referent, alive |-> TRUE]

\* value(): the referent, or None once it is reclaimed
None == [t |-> "NoneType", n |-> 0]

\* as Deref, a dead reference still yielding its referent
Deref_dangling(ref) == ref.ref

Deref(ref) == IF ref.alive THEN ref.ref ELSE None

check_can_handle(kind, v) ==
    CASE kind \in {ObjectStrategy, WeakGenericStrategy} -> TRUE
      [] kind = EmptyStrategy -> FALSE
      [] kind = SingleValueStrategy -> v = single_value
      [] kind = TaggingStrategy ->
            \/ v = wrapped_tagged_value
            \/ v.t = contained_type(kind) /\ unwrap(kind, v) # unwrapped_tagged_value
      [] OTHER -> v.t = contained_type(kind)

_unwrap(kind, value) ==
    CASE kind = ObjectStrategy -> value
      [] kind = WeakGenericStrategy -> WeakRef(value)
      [] kind = TaggingStrategy ->
            IF value = wrapped_tagged_value THEN unwrapped_tagged_value
            ELSE unwrap(kind, value)
      [] OTHER -> unwrap(kind, value)

default_value(kind) ==
    CASE kind = IntStrategy -> wrap(kind, RawInt(0))
      [] kind = FloatStrategy -> wrap(kind, RawFloat(0))
      [] OTHER -> w_nil

\* as _wrap, the tag of TaggingStrategy being boxed like any other value
_wrap_untagged(kind, value) ==
    CASE kind = ObjectStrategy -> value
      [] kind = WeakGenericStrategy ->
            IF Deref(value) = None THEN default_value(kind) ELSE Deref(value)
      [] OTHER -> wrap(kind, value)

\* WeakGenericStrategy._wrap is value() or self.default_value(): the values
\* are instances without __nonzero__ / __len__, so only None is false
_wrap(kind, value) ==
    CASE kind = ObjectStrategy -> value
      [] kind = WeakGenericStrategy ->
            IF Deref(value) = None THEN default_value(kind) ELSE Deref(value)
      [] kind = TaggingStrategy ->
            IF value = unwrapped_tagged_value THEN wrapped_tagged_value
            ELSE wrap(kind, value)
      [] OTHER -> wrap(kind, value)

\* ------------------------------------------------------------- instances
\* _size is the only payload of a SingleValue instance, storage that of the
\* kinds with storage
NoInstance == [kind |-> NoKind, storage |-> <<>>, arr |-> 0, _size |-> 0]

\* [x] * n
RECURSIVE Repeat(_, _)
Repeat(x, n) == IF n <= 0 THEN <<>> ELSE <<x>> \o Repeat(x, n - 1)

\* as init_strategy, one slot short
init_strategy_short(kind, initial_size) ==
    IF kind \in {EmptyStrategy, SingleValueStrategy} THEN <<>>
    ELSE Repeat(_unwrap(kind, default_value(kind)), initial_size - 1)

init_strategy(kind, initial_size) ==
    IF kind \in {EmptyStrategy, SingleValueStrategy} THEN <<>>
    ELSE Repeat(_unwrap(kind, default_value(kind)), initial_size)

\* AbstractStrategy.__init__(space, arr, size)
NewInstance(kind, arr, sz) ==
    [kind |-> kind, storage |-> init_strategy(kind, sz), arr |-> arr,
     _size |-> IF kind = SingleValueStrategy THEN sz ELSE 0]

\* as size, taking len(self.storage) for a SingleValue instance too
size_of_storage(inst) == IF inst.kind = EmptyStrategy THEN 0 ELSE Len(inst.storage)

size(inst) ==
    CASE inst.kind = EmptyStrategy -> 0
      [] inst.kind = SingleValueStrategy -> inst._size
      [] OTHER -> Len(inst.storage)

\* fetch of an index that check_index_fetch has let through
fetch(inst, index0) ==
    IF inst.kind = SingleValueStrategy THEN single_value
    ELSE _wrap(inst.kind, inst.storage[index0 + 1])

RECURSIVE slice(_, _, _)
slice(inst, start, end) ==
    IF start >= end THEN <<>>
    ELSE <<fetch(inst, start)>> \o slice(inst, start + 1, end)

fetch_all(inst) == slice(inst, 0, size(inst))

\* Python list primitives used on self.storage
ListInsert(s, at, x) ==
    LET p == IF at > Len(s) THEN Len(s) ELSE at
    IN SubSeq(s, 1, p) \o <<x>> \o SubSeq(s, p + 1, Len(s))

\* self.storage[index0] of a Python list: a negative index counts from the
\* end, an index outside the list raises IndexError
ListIndex(s, index0) == IF index0 < 0 THEN index0 + Len(s) ELSE index0

ListDelSlice(s, start, end) ==
    LET lo == IF start > Len(s) THEN Len(s) ELSE start
        hi == IF end > Len(s) THEN Len(s) ELSE end
    IN IF hi <= lo THEN s
       ELSE SubSeq(s, 1, lo) \o SubSeq(s, hi + 1, Len(s))

ListSuffix(s, i) == SubSeq(s, i + 1, Len(s))

\* -------------------------------------------------------------- registry
Generalizations == [k \in Kinds |-> _generalizations(k)]

Max(a, b) == IF a >= b THEN a ELSE b

\* get_generalization_depth(strategy, visited): the visited set is one
\* mutable set shared by the whole recursion, so it is threaded through.
RECURSIVE get_generalization_depth(_, _, _)
RECURSIVE depth_of_generalizations(_, _, _, _, _)
get_generalization_depth(G, s, visited) ==
    IF G[s] # <<>>
    THEN IF s \in visited
         THEN [depth |-> 0, visited |-> visited, cycle |-> TRUE]
         ELSE depth_of_generalizations(G, G[s], 1, visited \cup {s}, 0)
    ELSE [depth |-> 0, visited |-> visited, cycle |-> FALSE]

depth_of_generalizations(G, gens, k, visited, depth) ==
    IF k > Len(gens)
    THEN [depth |-> depth + 1, visited |-> visited, cycle |-> FALSE]
    ELSE LET r == get_generalization_depth(G, gens[k], visited)
         IN IF r.cycle THEN r
            ELSE depth_of_generalizations(G, gens, k + 1, r.visited, Max(depth, r.depth))

\* as SortKey, every class having the same key
SortKey_flat(G, s) == 0

SortKey(G, s) == get_generalization_depth(G, s, {}).depth

\* list.sort(key=..., reverse=True): stable, largest key first
RECURSIVE SortedInsert(_, _, _, _)
SortedInsert(G, sorted, x, k) ==
    IF k > Len(sorted) THEN Append(sorted, x)
    ELSE IF SortKey(G, sorted[k]) < SortKey(G, x)
         THEN SubSeq(sorted, 1, k - 1) \o <<x>> \o SubSeq(sorted, k, Len(sorted))
         ELSE SortedInsert(G, sorted, x, k + 1)

RECURSIVE order_strategies(_, _, _, _)
order_strategies(G, classes, k, sorted) ==
    IF k > Len(classes) THEN sorted
    ELSE order_strategies(G, classes, k + 1, SortedInsert(G, sorted, classes[k], 1))

\* StrategyFactory.__init__: every registered class, ordered
strategies == order_strategies(Generalizations, all_strategy_classes, 1, <<>>)

\* ---------------------------------------------------------- classification
RECURSIVE strategy_type_for_scan(_, _, _, _, _)
strategy_type_for_scan(registry, objects, k, can_handle, specialized_strategies) ==
    IF k > Len(objects) \/ specialized_strategies <= 1
    THEN can_handle
    ELSE LET next == [i \in 1..Len(registry) |->
                         can_handle[i] /\ check_can_handle(registry[i], objects[k])]
             dropped == Cardinality({i \in 1..Len(registry) : can_handle[i] /\ ~next[i]})
         IN strategy_type_for_scan(registry, objects, k + 1, next,
                                   specialized_strategies - dropped)

\* as strategy_type_for, looking at the first object only
strategy_type_for_head(registry, objects) ==
    LET can_handle == strategy_type_for_scan(registry,
                          IF objects = <<>> THEN <<>> ELSE <<objects[1]>>, 1,
                          [i \in 1..Len(registry) |-> TRUE], Len(registry))
        capable == {i \in 1..Len(registry) : can_handle[i]}
    IN IF capable = {} THEN NoKind
       ELSE registry[CHOOSE i \in capable : \A j \in capable : i <= j]

\* as strategy_type_for, returning the last capable kind
strategy_type_for_last(registry, objects) ==
    LET can_handle == strategy_type_for_scan(registry, objects, 1,
                          [i \in 1..Len(registry) |-> TRUE], Len(registry))
        capable == {i \in 1..Len(registry) : can_handle[i]}
    IN IF capable = {} THEN NoKind
       ELSE registry[CHOOSE i \in capable : \A j \in capable : j <= i]

\* NoKind stands for the exception "Could not find strategy to handle"
strategy_type_for(registry, objects) ==
    LET can_handle == strategy_type_for_scan(registry, objects, 1,
                          [i \in 1..Len(registry) |-> TRUE], Len(registry))
        capable == {i \in 1..Len(registry) : can_handle[i]}
    IN IF capable = {} THEN NoKind
       ELSE registry[CHOOSE i \in capable : \A j \in capable : i <= j]

\* generalized_strategy_for, patched onto a class by @strategy(generalize);
\* a class decorated without generalizations has no such method.
RECURSIVE FirstCapable(_, _, _)
FirstCapable(gens, value, k) ==
    IF k > Len(gens) THEN NoKind
    ELSE IF check_can_handle(gens[k], value) THEN gens[k]
         ELSE FirstCapable(gens, value, k + 1)

\* as generalized_strategy_for, returning the last capable generalization
generalized_strategy_for_last(kind, value) ==
    LET gens == _generalizations(kind)
        ok == {k \in 1..Len(gens) : check_can_handle(gens[k], value)}
    IN IF ok = {} THEN NoKind ELSE gens[CHOOSE k \in ok : \A j \in ok : j <= k]

generalized_strategy_for(kind, value) == FirstCapable(_generalizations(kind), value, 1)

\* ------------------------------------------------------------ the engine
\* W.heap: sequence of instances, W.strategy[h]: index of the instance host
\* h holds (0: host not built), W.ret: the instance a call returned,
\* W.log: one event per call of StrategyFactory.log for a switch.
Raise(W, e) == [W EXCEPT !.err = e]

\* what host h shows; nothing while its strategy attribute is not yet set
HostItems(W, h) == IF W.strategy[h] = 0 THEN <<>> ELSE fetch_all(W.heap[W.strategy[h]])

\* SafeIndexingMixin raises IndexError for an index outside [0, size());
\* in UnsafeIndexingMixin every check is a no-op.  W.indexing tells which
\* of the two mixins the strategy classes import.
Checked == "checked"
Unchecked == "unchecked"

\* as check_index, accepting any index
check_index_pass(W, self, index0) == W

check_index(W, self, index0) ==
    IF W.err # NoErr \/ W.indexing = Unchecked THEN W
    ELSE IF index0 < 0 \/ index0 >= size(W.heap[self])
         THEN Raise(W, "IndexError")
         ELSE W

check_index_store(W, self, index0) == check_index(W, self, index0)

check_index_fetch(W, self, index0) == check_index(W, self, index0)

check_index_range(W, self, start, end) ==
    IF W.err # NoErr \/ W.indexing = Unchecked THEN W
    ELSE IF end < start THEN Raise(W, "IndexError")
         ELSE check_index(check_index(W, self, start), self, end)

RECURSIVE store(_, _, _, _)
RECURSIVE insert(_, _, _, _)
RECURSIVE insert_loop(_, _, _, _, _)
RECURSIVE cannot_handle_store(_, _, _, _)
RECURSIVE cannot_handle_insert(_, _, _, _)
RECURSIVE generalize_for_value(_, _, _)
RECURSIVE switch_strategy(_, _, _, _)
RECURSIVE copy_from(_, _, _, _, _)

\* instantiate_and_switch: the new instance is built with default contents
\* and the host's reference is set to it at once
instantiate_only(W, old_strategy, sz, strategy_class) ==
    LET w_arr == W.heap[old_strategy].arr
        instance == NewInstance(strategy_class, w_arr, sz)
    IN [W EXCEPT !.heap = Append(W.heap, instance), !.ret = Len(W.heap) + 1]

instantiate_and_switch(W, old_strategy, sz, strategy_class) ==
    LET w_arr == W.heap[old_strategy].arr
        W1 == instantiate_only(W, old_strategy, sz, strategy_class)
    IN [W1 EXCEPT !.strategy[w_arr] = W1.ret]

\* StrategyFactory.log(new_instance, old_strategy, new_element), with the
\* contents the host array of the switch held before and holds now
log(W, new_instance, old_strategy, new_element, before) ==
    LET w_arr == W.heap[old_strategy].arr
    IN [W EXCEPT !.log = Append(W.log,
            [new |-> W.heap[new_instance].kind,
             old |-> W.heap[old_strategy].kind,
             size |-> size(W.heap[new_instance]),
             element |-> new_element,
             arr |-> w_arr,
             before |-> before,
             after |-> HostItems(W, w_arr)])]

\* copy_from / copy_field_from: self.store(n0, other.fetch(n0)) for n0 in
\* range(self.size()), the range being fixed when the loop starts
\* as copy_from, leaving the last field out
copy_from_short(W, self, other, n0, n) ==
    IF W.err # NoErr \/ n0 >= n - 1 THEN W
    ELSE copy_from(store(W, self, n0, fetch(W.heap[other], n0)), self, other, n0 + 1, n)

copy_from(W, self, other, n0, n) ==
    IF W.err # NoErr \/ n0 >= n THEN W
    ELSE copy_from(store(W, self, n0, fetch(W.heap[other], n0)), self, other, n0 + 1, n)

\* switch_strategy, lines 100-101: the log call and the return
switch_strategy_return(W2, new_instance, old_strategy, new_element, before) ==
    IF W2.err # NoErr THEN W2
    ELSE [log(W2, new_instance, old_strategy, new_element, before)
              EXCEPT !.ret = new_instance]

\* switch_strategy, lines 98-99: the copy into the new instance W1.ret
switch_strategy_copy(W1, old_strategy, new_element, before) ==
    switch_strategy_return(
        copy_from(W1, W1.ret, old_strategy, 0, size(W1.heap[W1.ret])),
        W1.ret, old_strategy, new_element, before)

switch_strategy(W, old_strategy, new_strategy_type, new_element) ==
    IF W.err # NoErr THEN W
    ELSE switch_strategy_copy(
            instantiate_and_switch(W, old_strategy, size(W.heap[old_strategy]),
                                   new_strategy_type),
            old_strategy, new_element, HostItems(W, W.heap[old_strategy].arr))

generalize_for_value(W, self, value) ==
    IF W.err # NoErr THEN W
    ELSE IF _generalizations(W.heap[self].kind) = <<>>
         THEN Raise(W, "AttributeError")
         ELSE LET strategy_type == generalized_strategy_for(W.heap[self].kind, value)
              IN IF strategy_type = NoKind
                 THEN Raise(W, "Could not find generalized strategy")
                 ELSE switch_strategy(W, self, strategy_type, value)

\* cannot_handle_store, the store into the instance W1.ret that
\* generalize_for_value returned
store_again(W1, index0, value) ==
    IF W1.err # NoErr THEN W1 ELSE store(W1, W1.ret, index0, value)

\* as cannot_handle_store, without the store into the new instance
cannot_handle_store_noretry(W, self, index0, value) ==
    generalize_for_value(W, self, value)

cannot_handle_store(W, self, index0, value) ==
    store_again(generalize_for_value(W, self, value), index0, value)

\* cannot_handle_insert, the insert into the instance W1.ret that
\* generalize_for_value returned
insert_again(W1, index0, list_w) ==
    IF W1.err # NoErr THEN W1 ELSE insert(W1, W1.ret, index0, list_w)

\* as cannot_handle_insert, without the insert into the new instance
cannot_handle_insert_noretry(W, self, index0, list_w) ==
    IF list_w = <<>> THEN Raise(W, "IndexError")
    ELSE generalize_for_value(W, self, list_w[1])

cannot_handle_insert(W, self, index0, list_w) ==
    IF list_w = <<>> THEN Raise(W, "IndexError")
    ELSE insert_again(generalize_for_value(W, self, list_w[1]), index0, list_w)

store(W, self, index0, value) ==
    IF W.err # NoErr THEN W
    ELSE LET kind == W.heap[self].kind
             W1 == check_index_store(W, self, index0)
         IN IF kind = EmptyStrategy
            THEN cannot_handle_insert(W, self, index0, <<value>>)
            ELSE IF W1.err # NoErr THEN W1
            ELSE IF ~check_can_handle(kind, value)
                 THEN cannot_handle_store(W, self, index0, value)
            ELSE IF kind = SingleValueStrategy THEN W
            ELSE LET at == ListIndex(W.heap[self].storage, index0)
                 IN IF 0 <= at /\ at < Len(W.heap[self].storage)
                    THEN [W EXCEPT !.heap[self].storage[at + 1] = _unwrap(kind, value)]
                    ELSE Raise(W, "IndexError")

insert_loop(W, self, start, list_w, i) ==
    IF W.err # NoErr \/ i >= Len(list_w) THEN W
    ELSE LET kind == W.heap[self].kind
         IN IF check_can_handle(kind, list_w[i + 1])
            THEN insert_loop(
                    [W EXCEPT !.heap[self].storage =
                        ListInsert(@, start + i, _unwrap(kind, list_w[i + 1]))],
                    self, start, list_w, i + 1)
            ELSE cannot_handle_insert(W, self, start + i, ListSuffix(list_w, i))

\* SingleValueStrategy.insert reads list_w[handled] in its first iteration,
\* a name that is bound nowhere: NameError for every non-empty list_w
insert(W, self, start, list_w) ==
    IF W.err # NoErr THEN W
    ELSE IF W.heap[self].kind = EmptyStrategy
         THEN cannot_handle_insert(W, self, start, list_w)
    ELSE IF W.heap[self].kind = SingleValueStrategy
         THEN IF list_w = <<>> THEN W ELSE Raise(W, "NameError")
         ELSE LET sz == size(W.heap[self])
              IN insert_loop(W, self, IF start > sz THEN sz ELSE start, list_w, 0)

append(W, self, list_w) == insert(W, self, size(W.heap[self]), list_w)

\* as delete, removing storage[start] only
delete_one(W, self, start, end) ==
    IF W.err # NoErr \/ W.heap[self].kind = EmptyStrategy THEN W
    ELSE [W EXCEPT !.heap[self].storage = ListDelSlice(@, start, start + 1)]

\* as delete, an emptied collection going back to EmptyStrategy
delete_reset(W, self, start, end) ==
    IF ListDelSlice(W.heap[self].storage, start, end) = <<>>
    THEN [W EXCEPT !.heap[self] = NewInstance(EmptyStrategy, W.heap[self].arr, 0)]
    ELSE [W EXCEPT !.heap[self].storage = ListDelSlice(@, start, end)]

\* delete of EmptyStrategy, SingleValueStrategy and StrategyWithStorage:
\* check_index_range comes first in each
delete(W, self, start, end) ==
    LET W1 == check_index_range(W, self, start, end)
        kind == W.heap[self].kind
    IN IF W1.err # NoErr \/ kind = EmptyStrategy THEN W1
       ELSE IF kind = SingleValueStrategy
            THEN [W1 EXCEPT !.heap[self]._size = @ - (end - start)]
            ELSE [W1 EXCEPT !.heap[self].storage = ListDelSlice(@, start, end)]

\* the part of fetch that can raise: EmptyStrategy.fetch raises IndexError,
\* the others call check_index_fetch and, with storage, index the list
fetch_raises(W, self, index0) ==
    LET inst == W.heap[self]
        at == ListIndex(inst.storage, index0)
    IN IF W.err # NoErr THEN W
       ELSE IF inst.kind = EmptyStrategy THEN Raise(W, "IndexError")
       ELSE IF check_index_fetch(W, self, index0).err # NoErr
            THEN check_index_fetch(W, self, index0)
       ELSE IF inst.kind # SingleValueStrategy /\ (at < 0 \/ at >= Len(inst.storage))
            THEN Raise(W, "IndexError")
            ELSE W

\* AbstractStrategy.pop: e = self.fetch(index0), self.delete(index0,
\* index0 + 1), return e; the world after the call
pop(W, self, index0) ==
    IF fetch_raises(W, self, index0).err # NoErr
    THEN fetch_raises(W, self, index0)
    ELSE delete(W, self, index0, index0 + 1)

\* the element pop returns when it returns
pop_value(W, self, index0) ==
    fetch(W.heap[self], ListIndex(W.heap[self].storage, index0))
\* ------------------------------------------------------------- the hosts
no_specialized_storage == FALSE

RECURSIVE store_each(_, _, _, _)
store_each(W, strategy_, objects, i) ==
    IF W.err # NoErr \/ i >= Len(objects) THEN W
    ELSE store_each(store(W, strategy_, i, objects[i + 1]), strategy_, objects, i + 1)

\* StrategyFactory.initialize_storage(arr, objects); W.ret is the instance
\* it returns
initialize_storage(W, arr, objects) ==
    LET typ == IF no_specialized_storage THEN ObjectStrategy
               ELSE strategy_type_for(strategies, objects)
    IN IF typ = NoKind THEN Raise(W, "Could not find strategy")
       ELSE LET strategy_ == Len(W.heap) + 1
                W1 == [W EXCEPT !.heap = Append(W.heap, NewInstance(typ, arr, Len(objects)))]
                W2 == store_each(W1, strategy_, objects, 0)
            IN [W2 EXCEPT !.ret = strategy_]

\* W_ArrayObject.__init__: self.strategy = initialize_storage(self, items_w)
W_ArrayObject_init(W, arr, items_w) ==
    LET W1 == initialize_storage(W, arr, items_w)
    IN IF W1.err # NoErr THEN W1 ELSE [W1 EXCEPT !.strategy[arr] = W1.ret]

\* XStrategy.deepcopy(memo): a new instance of the same class, built with
\* self.arr, whose storage is a copy of self.storage
deepcopy(inst) ==
    [NewInstance(inst.kind, inst.arr, size(inst)) EXCEPT !.storage = inst.storage]

\* W_ArrayObject.__deepcopy__: obj is the new host
W_ArrayObject_deepcopy(W, self, obj) ==
    LET c == deepcopy(W.heap[W.strategy[self]])
    IN [W EXCEPT !.heap = Append(W.heap, c), !.strategy[obj] = Len(W.heap) + 1]

\* ------------------------------------------------------------- the state
VARIABLES heap, strategy, last, pc, frame, probe, indexing

vars == <<heap, strategy, last, pc, frame, probe, indexing>>

World ==
    [heap |-> heap, strategy |-> strategy, err |-> NoErr, log |-> <<>>, ret |-> 0,
     indexing |-> indexing]

\* Between two operations only the instances the hosts hold are alive; they
\* are renumbered so that a host's instance has the number of the first
\* host holding it.
CanonicalId(W, h) ==
    IF W.strategy[h] = 0 THEN 0
    ELSE CHOOSE g \in Hosts : /\ W.strategy[g] = W.strategy[h]
                              /\ \A f \in Hosts : W.strategy[f] = W.strategy[h] => g <= f

CompactSlot(W, g) ==
    IF CanonicalId(W, g) = g THEN W.heap[W.strategy[g]] ELSE NoInstance

CompactHeap(W) == <<CompactSlot(W, 1), CompactSlot(W, 2)>>

CompactStrategy(W) == <<CanonicalId(W, 1), CanonicalId(W, 2)>>

NoView == [kind |-> NoKind, items |-> <<>>]

HostView(hp, st, h) ==
    IF st[h] = 0 THEN NoView
    ELSE [kind |-> hp[st[h]].kind, items |-> fetch_all(hp[st[h]])]

View(hp, st) == <<HostView(hp, st, 1), HostView(hp, st, 2)>>

Now == View(heap, strategy)

NoFrame == [op |-> "none"]
NoProbe == [registry |-> <<>>, objects |-> <<>>, typ |-> NoKind]

Call(op, h, i, j, vals) ==
    [op |-> op, h |-> h, i |-> i, j |-> j, vals |-> vals, pre |-> Now,
     log |-> <<>>, err |-> NoErr, ret |-> w_nil]

Commit(W, call) ==
    /\ heap' = CompactHeap(W)
    /\ strategy' = CompactStrategy(W)
    /\ last' = [call EXCEPT !.log = W.log, !.err = W.err]
    /\ UNCHANGED <<pc, frame, probe, indexing>>

Built(h) == strategy[h] # 0
Size(h) == size(heap[strategy[h]])
Kind(h) == heap[strategy[h]].kind

Lists == SeqsUpTo(Values, MaxSize)
InsertLists == SeqsUpTo(Values, MaxInsert)

Init ==
    /\ heap = <<NoInstance, NoInstance>>
    /\ strategy = <<0, 0>>
    /\ last = [Call("none", 0, 0, 0, <<>>) EXCEPT !.pre = <<NoView, NoView>>]
    /\ pc = "idle"
    /\ frame = NoFrame
    /\ probe = NoProbe
    /\ indexing = Unchecked

\* W_ArrayObject(space, items_w)
New(items_w) ==
    /\ pc = "idle" /\ ~Built(1)
    /\ Commit(W_ArrayObject_init(World, 1, items_w), Call("new", 1, 0, 0, items_w))

\* self.strategy.store(i, v); an Empty instance takes any index
Store(h, i, v) ==
    /\ pc = "idle" /\ Built(h)
    /\ i < Size(h) \/ Kind(h) = EmptyStrategy
    /\ Commit(store(World, strategy[h], i, v), Call("store", h, i, 0, <<v>>))

\* self.strategy.insert(i, list_w)
Insert(h, i, list_w) ==
    /\ pc = "idle" /\ Built(h)
    /\ i <= Size(h) + 1
    /\ Size(h) + Len(list_w) <= MaxSize
    /\ Commit(insert(World, strategy[h], i, list_w), Call("insert", h, i, 0, list_w))

\* self.strategy.append(list_w)
AppendTo(h, list_w) ==
    /\ pc = "idle" /\ Built(h)
    /\ Size(h) + Len(list_w) <= MaxSize
    /\ Commit(append(World, strategy[h], list_w), Call("append", h, Size(h), 0, list_w))

\* self.strategy.delete(start, end)
Delete(h, start, end) ==
    /\ pc = "idle" /\ Built(h)
    /\ start <= end /\ end <= Size(h)
    /\ Commit(delete(World, strategy[h], start, end), Call("delete", h, start, end, <<>>))

\* self.strategy.fetch(i): Empty raises IndexError, the others return the
\* element of a valid index
Fetch(h, i) ==
    /\ pc = "idle" /\ Built(h)
    /\ i < Size(h) \/ Kind(h) = EmptyStrategy
    /\ UNCHANGED <<heap, strategy, pc, frame, probe, indexing>>
    /\ last' = IF Kind(h) = EmptyStrategy
               THEN [Call("fetch", h, i, 0, <<>>) EXCEPT !.err = "IndexError"]
               ELSE [Call("fetch", h, i, 0, <<>>) EXCEPT !.ret = fetch(heap[strategy[h]], i)]

HostOps(h) ==
    \/ \E i \in 0..MaxSize, v \in Values : Store(h, i, v)
    \/ \E i \in 0..(MaxSize + 1), list_w \in InsertLists : Insert(h, i, list_w)
    \/ \E list_w \in InsertLists : AppendTo(h, list_w)
    \/ \E start \in 0..MaxSize, end \in 0..MaxSize : Delete(h, start, end)
    \/ \E i \in 0..MaxSize : Fetch(h, i)

Next ==
    \/ \E items_w \in Lists : New(items_w)
    \/ HostOps(1)

Spec == Init /\ [][Next]_vars
\* ------------------------------------------------ what the claims refer to
Pre == last.pre[last.h]
Post == Now[last.h]
ArrayBacked == {IntStrategy, FloatStrategy, ObjectStrategy}

\* the list an operation is supposed to leave behind
ExpStore(items, i, v) == [items EXCEPT ![i + 1] = v]
ExpInsert(items, i, vals) == SubSeq(items, 1, i) \o vals \o SubSeq(items, i + 1, Len(items))
ExpDelete(items, start, end) == SubSeq(items, 1, start) \o SubSeq(items, end + 1, Len(items))

Switched == last.op \in {"store", "insert", "append"} /\ last.log # <<>>

\* C1: every switch a store, insert or append triggers leaves the host of
\* the switch, when switch_strategy returns, with exactly the elements, in
\* the same order, that the instance it held before the switch had; this
\* holds for each of the successive switches of one call.
C1_SwitchPreservesContents ==
    Switched =>
        \A k \in 1..Len(last.log) :
            /\ last.log[k].after = last.log[k].before
            /\ last.log[k].size = Len(last.log[k].before)
            /\ last.log[k].arr = last.h

C1_Witness ==
    /\ Switched
    /\ Len(last.log) = 2
    /\ Len(last.log[2].before) >= 1
    /\ last.log[1].new = last.log[2].old

\* C5: a host built from a list of items holds an instance of the kind
\* strategy_type_for(items) whose fetch_all() is items, and building it
\* triggers no switch and raises nothing.
C5_Construction ==
    last.op = "new" =>
        /\ last.err = NoErr
        /\ Post.kind = strategy_type_for(strategies, last.vals)
        /\ Post.items = last.vals
        /\ last.log = <<>>
        /\ heap[strategy[1]].arr = 1

C5_Witness ==
    /\ last.op = "new"
    /\ Len(last.vals) = MaxSize
    /\ Post.kind = IntStrategy
    /\ last.vals[1] # last.vals[2]

\* C6: store(i, v) at a valid index of an array-backed kind keeps the size,
\* makes position i hold v and leaves the other positions alone, with or
\* without a switch.
C6_Store ==
    (last.op = "store" /\ Pre.kind \in ArrayBacked /\ last.i < Len(Pre.items)) =>
        /\ last.err = NoErr
        /\ Len(Post.items) = Len(Pre.items)
        /\ Post.items = ExpStore(Pre.items, last.i, last.vals[1])

C6_Witness ==
    /\ last.op = "store"
    /\ Pre.kind = IntStrategy
    /\ Len(Pre.items) >= 2
    /\ last.i = 1
    /\ last.log # <<>>
    /\ Post.kind = ObjectStrategy

\* C7: insert(i, values) with 0 <= i <= size and k values returns normally,
\* makes the size grow by k, puts the values in order at i..i+k-1 and keeps
\* the order of the elements that were there, whatever switches happen.
C7_Insert ==
    (last.op = "insert" /\ last.i <= Len(Pre.items)) =>
        /\ last.err = NoErr
        /\ Len(Post.items) = Len(Pre.items) + Len(last.vals)
        /\ Post.items = ExpInsert(Pre.items, last.i, last.vals)

\* C7 for at least one value: the statement above holds of every insert of
\* a non-empty list.
C7_InsertNonEmpty ==
    (last.op = "insert" /\ last.i <= Len(Pre.items) /\ last.vals # <<>>) =>
        /\ last.err = NoErr
        /\ Post.items = ExpInsert(Pre.items, last.i, last.vals)

\* C8: delete(start, end) with 0 <= start <= end <= size on an array-backed
\* kind removes exactly positions start..end-1 and keeps the kind.
C8_Delete ==
    (last.op = "delete" /\ Pre.kind \in ArrayBacked) =>
        /\ last.err = NoErr
        /\ Len(Post.items) = Len(Pre.items) - (last.j - last.i)
        /\ Post.items = ExpDelete(Pre.items, last.i, last.j)
        /\ Post.kind = Pre.kind
        /\ last.log = <<>>

C8_Witness ==
    /\ last.op = "delete"
    /\ Pre.kind = IntStrategy
    /\ Len(Pre.items) = 3
    /\ last.i = 1 /\ last.j = 2
    /\ Pre.items[1] # Pre.items[3]

\* the target the lattice prescribes for a value a kind cannot handle
ExpectedTarget(old, element) ==
    IF old = EmptyStrategy
    THEN CASE element.t = "W_FloatObject" -> FloatStrategy
           [] element.t = "W_FixnumObject" -> IntStrategy
           [] OTHER -> ObjectStrategy
    ELSE ObjectStrategy

\* C9: a switch happens for a value the current kind cannot handle and goes
\* to the first declared generalization that accepts the value (Empty to
\* Float, Int or Object by the value's class, Int and Float to Object);
\* appending a float to an Int array gives an Object array holding the old
\* contents followed by the float.
C9_SwitchTarget ==
    /\ Switched =>
          \A k \in 1..Len(last.log) :
              /\ ~check_can_handle(last.log[k].old, last.log[k].element)
              /\ last.log[k].new = ExpectedTarget(last.log[k].old, last.log[k].element)
              /\ \E n \in 1..Len(_generalizations(last.log[k].old)) :
                    /\ _generalizations(last.log[k].old)[n] = last.log[k].new
                    /\ check_can_handle(last.log[k].new, last.log[k].element)
                    /\ \A m \in 1..(n - 1) :
                          ~check_can_handle(_generalizations(last.log[k].old)[m],
                                            last.log[k].element)
    /\ (/\ last.op = "append" /\ Pre.kind = IntStrategy
        /\ Len(last.vals) = 1 /\ last.vals[1].t = "W_FloatObject") =>
          /\ Post.kind = ObjectStrategy
          /\ Post.items = Pre.items \o last.vals

C9_Witness ==
    /\ last.op = "append"
    /\ Pre.kind = IntStrategy
    /\ Len(Pre.items) = 2
    /\ last.vals = <<Flo(1)>>
    /\ Post.kind = ObjectStrategy

\* C10: store(i, v) on an Empty host, for any i >= 0, escalates to a kind
\* that can hold v and leaves size 1 with fetch(0) = v; fetch on an Empty
\* instance raises IndexError.
C10_EmptyStore ==
    /\ (last.op = "store" /\ Pre.kind = EmptyStrategy) =>
          /\ last.err = NoErr
          /\ Post.kind # EmptyStrategy
          /\ check_can_handle(Post.kind, last.vals[1])
          /\ Post.items = last.vals
    /\ (last.op = "fetch" /\ Pre.kind = EmptyStrategy) => last.err = "IndexError"

C10_Witness ==
    /\ last.op = "store"
    /\ Pre.kind = EmptyStrategy
    /\ last.i = 2
    /\ Post.kind = FloatStrategy
\* ------------------------------------------------- classification alone
\* strategy_type_for applied to any registration order of the kinds
Injective(r) == \A i, j \in 1..Len(r) : r[i] = r[j] => i = j
Registries == {r \in SeqsUpTo(Kinds, Cardinality(Kinds)) : r # <<>> /\ Injective(r)}

InitClassify ==
    /\ heap = <<NoInstance, NoInstance>>
    /\ strategy = <<0, 0>>
    /\ last = [Call("none", 0, 0, 0, <<>>) EXCEPT !.pre = <<NoView, NoView>>]
    /\ pc = "idle"
    /\ frame = NoFrame
    /\ indexing = Unchecked
    /\ probe \in {[registry |-> r, objects |-> o, typ |-> "pending"] :
                     r \in Registries, o \in Lists}

Classify ==
    /\ probe.typ = "pending"
    /\ probe' = [probe EXCEPT !.typ = strategy_type_for(probe.registry, probe.objects)]
    /\ UNCHANGED <<heap, strategy, last, pc, frame, indexing>>

NextClassify == Classify

SpecClassify == InitClassify /\ [][NextClassify]_vars

CatchAll(kind) == \A v \in Values : check_can_handle(kind, v)

Accepts(kind, objects) == \A k \in 1..Len(objects) : check_can_handle(kind, objects[k])

FirstAccepting(registry, objects) ==
    LET ok == {i \in 1..Len(registry) : Accepts(registry[i], objects)}
    IN IF ok = {} THEN NoKind
       ELSE registry[CHOOSE i \in ok : \A j \in ok : i <= j]

LatticeKind(objects) ==
    IF objects = <<>> THEN EmptyStrategy
    ELSE IF \A k \in 1..Len(objects) : objects[k].t = "W_FixnumObject" THEN IntStrategy
    ELSE IF \A k \in 1..Len(objects) : objects[k].t = "W_FloatObject" THEN FloatStrategy
    ELSE ObjectStrategy

\* C4: with a catch-all kind in the registry, strategy_type_for returns the
\* first kind of the registry that accepts every element of the input, the
\* early exit notwithstanding; in the registered order that is Empty for no
\* element, Int for fixnums only, Float for floats only, Object otherwise.
C4_Classification ==
    (/\ probe.typ # "pending"
     /\ \E i \in 1..Len(probe.registry) : CatchAll(probe.registry[i])) =>
        /\ probe.typ = FirstAccepting(probe.registry, probe.objects)
        /\ probe.registry = strategies => probe.typ = LatticeKind(probe.objects)

\* the scan stops after the second element, the third is never looked at
C4_Witness ==
    /\ probe.typ = ObjectStrategy
    /\ probe.registry = strategies
    /\ Len(probe.objects) = 3
    /\ probe.objects[1].t = "W_FixnumObject"
    /\ probe.objects[2].t = "W_FloatObject"

\* ------------------------------------------------- an array and its copy
\* copy.deepcopy(w_array): host 2 is the copy of host 1
DeepCopy ==
    /\ pc = "idle" /\ Built(1) /\ ~Built(2)
    /\ Commit(W_ArrayObject_deepcopy(World, 1, 2), Call("deepcopy", 2, 0, 0, <<>>))

\* the operations tried on an array and its copy: short arrays of fixnums
\* and floats, one value at a time
CopyValues == {Fix(1), Flo(1)}
CopyLists == SeqsUpTo(CopyValues, MaxCopySize)
CopyInsertLists == SeqsUpTo(CopyValues, 1)

CopyOps(h) ==
    \/ \E i \in 0..MaxCopySize, v \in CopyValues : Store(h, i, v)
    \/ \E i \in 0..MaxCopySize, list_w \in CopyInsertLists :
          Built(h) /\ Size(h) + Len(list_w) <= MaxCopySize /\ Insert(h, i, list_w)
    \/ \E list_w \in CopyInsertLists :
          Built(h) /\ Size(h) + Len(list_w) <= MaxCopySize /\ AppendTo(h, list_w)
    \/ \E start \in 0..MaxCopySize, end \in 0..MaxCopySize : Delete(h, start, end)

NextCopy ==
    \/ \E items_w \in CopyLists : New(items_w)
    \/ DeepCopy
    \/ CopyOps(1)
    \/ CopyOps(2)

SpecCopy == Init /\ [][NextCopy]_vars

Clamp(i, n) == IF i > n THEN n ELSE i

Expected ==
    CASE last.op = "store" ->
            IF Pre.kind = EmptyStrategy THEN last.vals
            ELSE ExpStore(Pre.items, last.i, last.vals[1])
      [] last.op \in {"insert", "append"} ->
            ExpInsert(Pre.items, Clamp(last.i, Len(Pre.items)), last.vals)
      [] last.op = "delete" -> ExpDelete(Pre.items, last.i, last.j)
      [] OTHER -> Pre.items

\* C3: once an array is deep-copied, a store, insert, append or delete on
\* one of the two leaves the contents and the kind of the other unchanged
\* and shows in the contents of the one it was applied to.
C3_CopyIndependent ==
    (/\ Built(1) /\ Built(2)
     /\ last.op \in {"store", "insert", "append", "delete"}
     /\ last.err = NoErr) =>
        /\ Now[3 - last.h] = last.pre[3 - last.h]
        /\ Post.items = Expected
\* ------------------------------------------------ a switch, step by step
\* store and insert on host 1 with every step of switch_strategy taken
\* separately: instantiate (arrayobject.py line 47), the swap of the host's
\* reference (line 48), one copy_field_from per element, the hook and the
\* log, and the retry of the operation on the new instance.
StepWorld ==
    [heap |-> heap, strategy |-> strategy, err |-> NoErr, log |-> frame.log, ret |-> 0,
     indexing |-> indexing]

Returned(W) ==
    /\ pc' = "idle"
    /\ frame' = [op |-> "returned", expect |-> frame.expect]
    /\ heap' = CompactHeap(W)
    /\ strategy' = CompactStrategy(W)
    /\ last' = [last EXCEPT !.log = W.log, !.err = W.err]
    /\ UNCHANGED <<probe, indexing>>

Goto(W, label, fr) ==
    IF W.err # NoErr THEN Returned(W)
    ELSE /\ pc' = label
         /\ frame' = [fr EXCEPT !.log = W.log]
         /\ heap' = W.heap
         /\ strategy' = W.strategy
         /\ UNCHANGED <<last, probe, indexing>>

NewFrame(op, self, index0, list_w, expect) ==
    [op |-> op, self |-> self, index0 |-> index0, list_w |-> list_w, i |-> 0,
     old |-> 0, new |-> 0, n0 |-> 0, n |-> 0, before |-> <<>>, log |-> <<>>,
     expect |-> expect]

BeginStore(h, i, v) ==
    /\ pc = "idle" /\ Built(h)
    /\ i < Size(h) \/ Kind(h) = EmptyStrategy
    /\ pc' = "call"
    /\ frame' = NewFrame("store", strategy[h], i, <<v>>,
                         LET W == store(World, strategy[h], i, v)
                         IN View(CompactHeap(W), CompactStrategy(W)))
    /\ last' = Call("store", h, i, 0, <<v>>)
    /\ UNCHANGED <<heap, strategy, probe, indexing>>

BeginInsert(h, i, list_w) ==
    /\ pc = "idle" /\ Built(h)
    /\ i <= Size(h) + 1
    /\ Size(h) + Len(list_w) <= MaxSize
    /\ pc' = "call"
    /\ frame' = NewFrame("insert", strategy[h], Clamp(i, Size(h)), list_w,
                         LET W == insert(World, strategy[h], i, list_w)
                         IN View(CompactHeap(W), CompactStrategy(W)))
    /\ last' = Call("insert", h, i, 0, list_w)
    /\ UNCHANGED <<heap, strategy, probe, indexing>>

\* the body of store up to its return or its call of cannot_handle_store
\* (EmptyStrategy.store: cannot_handle_insert(index0, [value]))
StepStore ==
    /\ pc = "call" /\ frame.op = "store"
    /\ LET kind == heap[frame.self].kind
       IN IF kind = EmptyStrategy
          THEN Goto(StepWorld, "generalize", [frame EXCEPT !.op = "insert"])
          ELSE IF check_can_handle(kind, frame.list_w[1])
               THEN Returned(IF frame.index0 < Len(heap[frame.self].storage)
                             THEN [StepWorld EXCEPT !.heap[frame.self].storage[frame.index0 + 1] =
                                        _unwrap(kind, frame.list_w[1])]
                             ELSE Raise(StepWorld, "IndexError"))
               ELSE Goto(StepWorld, "generalize", frame)

\* one turn of the loop of insert, or its call of cannot_handle_insert
StepInsert ==
    /\ pc = "call" /\ frame.op = "insert"
    /\ LET kind == heap[frame.self].kind
       IN IF kind = EmptyStrategy
          THEN Goto(StepWorld, "generalize", frame)
          ELSE IF frame.i >= Len(frame.list_w)
               THEN Returned(StepWorld)
               ELSE IF check_can_handle(kind, frame.list_w[frame.i + 1])
                    THEN Goto([StepWorld EXCEPT !.heap[frame.self].storage =
                                  ListInsert(@, frame.index0 + frame.i,
                                             _unwrap(kind, frame.list_w[frame.i + 1]))],
                              "call", [frame EXCEPT !.i = frame.i + 1])
                    ELSE Goto(StepWorld, "generalize",
                              [frame EXCEPT !.index0 = frame.index0 + frame.i,
                                            !.list_w = ListSuffix(frame.list_w, frame.i),
                                            !.i = 0])

\* generalize_for_value up to the instantiation of the new instance
StepInstantiate ==
    /\ pc = "generalize"
    /\ LET kind == heap[frame.self].kind
       IN IF frame.list_w = <<>> THEN Returned(Raise(StepWorld, "IndexError"))
          ELSE IF _generalizations(kind) = <<>>
               THEN Returned(Raise(StepWorld, "AttributeError"))
               ELSE IF generalized_strategy_for(kind, frame.list_w[1]) = NoKind
                    THEN Returned(Raise(StepWorld, "Could not find generalized strategy"))
                    ELSE LET W == instantiate_only(StepWorld, frame.self,
                                      size(heap[frame.self]),
                                      generalized_strategy_for(kind, frame.list_w[1]))
                         IN Goto(W, "instantiated",
                                 [frame EXCEPT !.old = frame.self, !.new = W.ret,
                                               !.n0 = 0, !.n = size(W.heap[W.ret]),
                                               !.before = fetch_all(heap[frame.self])])

\* w_arr.strategy = instance
StepSwapReference ==
    /\ pc = "instantiated"
    /\ Goto([StepWorld EXCEPT !.strategy[heap[frame.old].arr] = frame.new],
            "copying", frame)

\* copy_field_from(n0, other)
StepCopyField ==
    /\ pc = "copying" /\ frame.n0 < frame.n
    /\ Goto(store(StepWorld, frame.new, frame.n0, fetch(heap[frame.old], frame.n0)),
            "copying", [frame EXCEPT !.n0 = frame.n0 + 1])

\* strategy_switched(), log(...) and the return of switch_strategy
StepHook ==
    /\ pc = "copying" /\ frame.n0 >= frame.n
    /\ Goto(log(StepWorld, frame.new, frame.old, frame.list_w[1], frame.before),
            "switched", frame)

\* new_instance.store(index0, value) / new_strategy.insert(index0, list_w)
StepRetry ==
    /\ pc = "switched"
    /\ Goto(StepWorld, "call",
            [frame EXCEPT !.self = frame.new, !.i = 0,
                          !.index0 = IF frame.op = "insert"
                                     THEN Clamp(frame.index0, size(heap[frame.new]))
                                     ELSE frame.index0])

NextSteps ==
    \/ \E items_w \in Lists : New(items_w)
    \/ \E i \in 0..MaxSize, v \in Values : BeginStore(1, i, v)
    \/ \E i \in 0..(MaxSize + 1), list_w \in InsertLists : BeginInsert(1, i, list_w)
    \/ StepStore
    \/ StepInsert
    \/ StepInstantiate
    \/ StepSwapReference
    \/ StepCopyField
    \/ StepHook
    \/ StepRetry

SpecSteps == Init /\ [][NextSteps]_vars

InSwitch == pc \in {"instantiated", "copying", "switched"}
SwitchHost == heap[frame.old].arr
SwitchHostItems == fetch_all(heap[strategy[SwitchHost]])

\* the steps end in the state the whole operation computes
StepsAgree == (pc = "idle" /\ frame.op = "returned") => Now = frame.expect

\* C2 as stated: the host's reference designates the new instance only once
\* every element is copied, so that in every state of a switch the instance
\* the host holds has the contents the collection (old_strategy) had before
\* the switch.
C2_NeverHalfSwitched ==
    InSwitch =>
        /\ strategy[SwitchHost] = frame.new => frame.n0 = frame.n
        /\ SwitchHostItems = frame.before

\* C2 amended: the reference of the host old_strategy.arr is set to the new
\* instance by instantiate_and_switch, before the copy; during the copy the
\* host holds the new instance with the n0 copied elements followed by
\* default values, and from the end of the copy on, through the hook and
\* the return of switch_strategy, the new instance with exactly the
\* contents of old_strategy.
C2_SwapThenCopy ==
    /\ pc = "instantiated" => strategy[SwitchHost] # frame.new
    /\ pc = "copying" =>
          /\ strategy[SwitchHost] = frame.new
          /\ SwitchHostItems =
                SubSeq(frame.before, 1, frame.n0)
                \o Repeat(default_value(heap[frame.new].kind), Len(frame.before) - frame.n0)
    /\ pc = "switched" =>
          /\ strategy[SwitchHost] = frame.new
          /\ SwitchHostItems = frame.before

C2_Witness ==
    /\ pc = "copying"
    /\ frame.n0 = 1
    /\ frame.n >= 2
    /\ SwitchHostItems # frame.before

\* ------------------------------------------- a collection of the library
\* One collection (host 1) whose strategy classes are composed from the
\* mixins of rstrategies.py: the four kinds above, a SingleValue kind whose
\* value is nil, a Tagging kind of fixnums whose tagged value is nil, and a
\* WeakGeneric kind; its classes import either indexing mixin.
LibKinds == Kinds \cup {SingleValueStrategy, TaggingStrategy, WeakGenericStrategy}

Indexes == -1..MaxLibSize

InBounds(h, i) == 0 <= i /\ i < Size(h)

InitLib ==
    /\ heap = <<NoInstance, NoInstance>>
    /\ strategy = <<0, 0>>
    /\ last = [Call("none", 0, 0, 0, <<>>) EXCEPT !.pre = <<NoView, NoView>>]
    /\ pc = "idle"
    /\ frame = NoFrame
    /\ probe = NoProbe
    /\ indexing \in {Checked, Unchecked}

\* strategy_class(space, w_arr, size): the collection starts with an
\* instance of the given kind and size, holding the kind's default contents
LibNew(kind, sz) ==
    /\ pc = "idle" /\ ~Built(1)
    /\ kind = EmptyStrategy => sz = 0
    /\ Commit([World EXCEPT !.heap = <<NewInstance(kind, 1, sz)>>, !.strategy[1] = 1],
              Call("new", 1, sz, 0, <<>>))

\* strategy.store(i, v); an index outside [0, size) is passed only where
\* the code defines the outcome (checked indexing, or an Empty instance)
LibStore(i, v) ==
    /\ pc = "idle" /\ Built(1)
    /\ \/ InBounds(1, i)
       \/ indexing = Checked /\ Kind(1) # EmptyStrategy
       \/ Kind(1) = EmptyStrategy /\ i >= 0
    /\ Commit(store(World, strategy[1], i, v), Call("store", 1, i, 0, <<v>>))

\* strategy.fetch(i): EmptyStrategy raises IndexError; the others call
\* check_index_fetch and then read the value
LibFetch(i) ==
    /\ pc = "idle" /\ Built(1)
    /\ InBounds(1, i) \/ indexing = Checked \/ Kind(1) = EmptyStrategy
    /\ UNCHANGED <<heap, strategy, pc, frame, probe, indexing>>
    /\ last' = LET W == check_index_fetch(World, strategy[1], i)
                   self == heap[strategy[1]]
                   at == ListIndex(self.storage, i)
               IN IF \/ Kind(1) = EmptyStrategy
                     \/ W.err # NoErr
                     \/ Kind(1) # SingleValueStrategy /\ (at < 0 \/ at >= Len(self.storage))
                  THEN [Call("fetch", 1, i, 0, <<>>) EXCEPT !.err = "IndexError"]
                  ELSE [Call("fetch", 1, i, 0, <<>>) EXCEPT !.ret = fetch(self, at)]

\* strategy.insert(i, list_w)
LibInsert(i, list_w) ==
    /\ pc = "idle" /\ Built(1)
    /\ 0 <= i /\ i <= Size(1) + 1
    /\ Size(1) + Len(list_w) <= MaxLibSize
    /\ Commit(insert(World, strategy[1], i, list_w), Call("insert", 1, i, 0, list_w))

\* strategy.delete(start, end)
LibDelete(start, end) ==
    /\ pc = "idle" /\ Built(1)
    /\ indexing = Checked \/ (0 <= start /\ start <= end /\ end <= Size(1))
    /\ Commit(delete(World, strategy[1], start, end), Call("delete", 1, start, end, <<>>))

\* the garbage collector reclaims an object that only weak references of
\* the collection keep: every weakref to it is dead from now on
Reclaimed(slot, x) == IF slot.ref = x THEN [slot EXCEPT !.alive = FALSE] ELSE slot

RECURSIVE ReclaimAll(_, _)
ReclaimAll(storage, x) ==
    IF storage = <<>> THEN <<>>
    ELSE <<Reclaimed(Head(storage), x)>> \o ReclaimAll(Tail(storage), x)

Reclaim(x) ==
    /\ pc = "idle" /\ Built(1)
    /\ Kind(1) = WeakGenericStrategy
    /\ \E k \in 1..Size(1) : heap[strategy[1]].storage[k] = WeakRef(x)
    /\ Commit([World EXCEPT !.heap[strategy[1]].storage = ReclaimAll(@, x)],
              Call("reclaim", 1, 0, 0, <<x>>))

NextLib ==
    \/ \E kind \in LibKinds, sz \in 0..MaxLibSize : LibNew(kind, sz)
    \/ \E i \in Indexes, v \in Values : LibStore(i, v)
    \/ \E i \in Indexes : LibFetch(i)
    \/ \E i \in 0..(MaxLibSize + 1), list_w \in InsertLists : LibInsert(i, list_w)
    \/ \E start \in Indexes, end \in Indexes : LibDelete(start, end)
    \/ \E x \in Values \ {w_nil} : Reclaim(x)

SpecLib == InitLib /\ [][NextLib]_vars

\* ----------------------------------------------------- the library claims
OutOfRange(n, i) == i < 0 \/ i >= n

\* the calls the checked policy must refuse
Refused ==
    /\ indexing = Checked
    /\ \/ last.op \in {"fetch", "store"} /\ OutOfRange(Len(Pre.items), last.i)
       \/ /\ last.op = "delete"
          /\ \/ last.j < last.i
             \/ OutOfRange(Len(Pre.items), last.i)
             \/ OutOfRange(Len(Pre.items), last.j)

\* C11 as stated: under the checked indexing policy a fetch or a store at
\* an index outside [0, size), and a delete with end < start or with an
\* index outside [0, size), raise IndexError and leave the contents, the
\* size and the kind of the collection as they were; no switch occurs.
C11_CheckedEveryKind ==
    Refused => /\ last.err = "IndexError"
               /\ Post = Pre
               /\ last.log = <<>>

\* C11 amended: the same for fetch and delete on every kind and for store
\* on every kind but Empty, whose store never consults the index check and
\* escalates whatever the index is.
C11_CheckedIndexing ==
    /\ (Refused /\ ~(last.op = "store" /\ Pre.kind = EmptyStrategy)) =>
            /\ last.err = "IndexError"
            /\ Post = Pre
            /\ last.log = <<>>
    /\ (indexing = Checked /\ last.op = "store" /\ Pre.kind = EmptyStrategy) =>
            /\ last.err = NoErr
            /\ Post.items = <<last.vals[1]>>
            /\ Post.kind # EmptyStrategy

\* an out-of-range store of a value the kind cannot handle was refused
C11_Witness ==
    /\ Refused /\ last.op = "store"
    /\ Pre.kind \in {IntStrategy, TaggingStrategy}
    /\ ~check_can_handle(Pre.kind, last.vals[1])
    /\ Pre.items # <<>>
    /\ last.err = "IndexError"

EmptyRange ==
    last.op = "delete" /\ last.i = last.j /\ 0 <= last.i /\ last.i <= Len(Pre.items)

\* C12: a delete of an empty range, delete(start, start) with
\* 0 <= start <= size, returns without error and leaves contents, size and
\* kind unchanged, for every kind and under both indexing policies.
C12_EmptyRangeDelete ==
    EmptyRange => last.err = NoErr /\ Post = Pre /\ last.log = <<>>

\* what holds of the code: the same, unless the policy is the checked one
\* and start = size
C12_EmptyRangeInside ==
    (EmptyRange /\ (indexing = Unchecked \/ last.i < Len(Pre.items))) =>
        last.err = NoErr /\ Post = Pre /\ last.log = <<>>

C12_EmptyRangeAtEnd ==
    (EmptyRange /\ indexing = Checked /\ last.i = Len(Pre.items)) =>
        last.err = "IndexError" /\ Post = Pre

\* the number of leading values of vals that are the single value
RECURSIVE Matching(_)
Matching(vals) ==
    IF vals = <<>> \/ Head(vals) # single_value THEN 0 ELSE 1 + Matching(Tail(vals))

SingleValueInsert ==
    last.op = "insert" /\ Pre.kind = SingleValueStrategy /\ last.i <= Len(Pre.items)

\* C13: insert(i, values) on a SingleValue instance of size n holding c,
\* with k values: if every value is c the call returns with size n + k and
\* without a switch; if the first other value is at offset m, the size is
\* extended by m, the host switches to a generalization (the first switch
\* is logged with size n + m) and the suffix values[m:] is inserted at
\* position i + m of the new instance.
C13_SingleValueInsert ==
    SingleValueInsert =>
        LET n == Len(Pre.items)
            k == Len(last.vals)
            m == Matching(last.vals)
        IN /\ last.err = NoErr
           /\ Len(Post.items) = n + k
           /\ m = k => Post.kind = SingleValueStrategy /\ last.log = <<>>
           /\ m < k => /\ last.log # <<>>
                       /\ last.log[1].old = SingleValueStrategy
                       /\ last.log[1].size = n + m
                       /\ Post.items = ExpInsert(Pre.items, last.i + m, ListSuffix(last.vals, m))

\* what holds of the code: only the insert of no value returns; every other
\* insert raises NameError and leaves the instance as it was
C13_SingleValueInsertRaises ==
    SingleValueInsert =>
        /\ Post = Pre /\ last.log = <<>>
        /\ last.err = IF last.vals = <<>> THEN NoErr ELSE "NameError"

OnSingleValue == last.h = 1 /\ Pre.kind = SingleValueStrategy

\* the ranges delete accepts: 0 <= start <= end <= size, and under the
\* checked policy only those check_index_range lets through
AcceptedRange(n, start, end) ==
    /\ 0 <= start /\ start <= end /\ end <= n
    /\ indexing = Checked => end < n

\* C14: a SingleValue instance is described by its size alone.  It keeps
\* no per-element storage and shows its value c at every position; fetch(i)
\* of a valid i returns c; store(i, c) changes nothing and switches
\* nothing; an accepted delete(start, end) lowers the size by end - start
\* and changes nothing else, a refused one changes nothing, so that the
\* size is the initial size minus the sum of end - start over the deletes.
C14_SingleValueCompact ==
    /\ (Built(1) /\ Kind(1) = SingleValueStrategy) =>
            /\ heap[strategy[1]].storage = <<>>
            /\ Now[1].items = Repeat(single_value, heap[strategy[1]]._size)
    /\ (OnSingleValue /\ last.op = "fetch" /\ ~OutOfRange(Len(Pre.items), last.i)) =>
            last.err = NoErr /\ last.ret = single_value
    /\ (OnSingleValue /\ last.op = "store" /\ last.vals = <<single_value>>
            /\ ~OutOfRange(Len(Pre.items), last.i)) =>
            last.err = NoErr /\ Post = Pre /\ last.log = <<>>
    /\ (OnSingleValue /\ last.op = "delete") =>
            /\ Post.kind = SingleValueStrategy /\ last.log = <<>>
            /\ AcceptedRange(Len(Pre.items), last.i, last.j) => last.err = NoErr
            /\ Len(Post.items) = IF last.err = NoErr
                                  THEN Len(Pre.items) - (last.j - last.i)
                                  ELSE Len(Pre.items)

\* a delete of one position took a SingleValue instance from size 2 to 1
C14_Witness ==
    /\ OnSingleValue /\ last.op = "delete" /\ last.err = NoErr
    /\ last.j = last.i + 1
    /\ Len(Pre.items) = 2 /\ Post.items = <<single_value>>
    /\ heap[strategy[1]].storage = <<>>

OnTagging ==
    /\ last.op = "store" /\ Pre.kind = TaggingStrategy
    /\ ~OutOfRange(Len(Pre.items), last.i)

\* the values the Tagging kind is to accept: the tagged object T, and the
\* fixnums whose unboxed form is not the sentinel s
TaggingAccepts(v) ==
    \/ v = wrapped_tagged_value
    \/ v.t = "W_FixnumObject" /\ RawInt(v.n) # unwrapped_tagged_value

\* C15: on a Tagging instance a store of T or of a fixnum other than the
\* sentinel is taken in place, and fetch(i) then returns the stored value,
\* which is T exactly when T was stored; a store of the fixnum whose
\* unboxed form is the sentinel, like that of any other value, escalates
\* to another kind, where fetch(i) returns that very value and not T.
C15_Tagging ==
    OnTagging =>
        LET v == last.vals[1]
        IN /\ last.err = NoErr
           /\ Post.items = ExpStore(Pre.items, last.i, v)
           /\ (Post.items[last.i + 1] = wrapped_tagged_value) <=> (v = wrapped_tagged_value)
           /\ TaggingAccepts(v) => Post.kind = TaggingStrategy /\ last.log = <<>>
           /\ ~TaggingAccepts(v) =>
                    /\ Post.kind # TaggingStrategy
                    /\ last.log # <<>> /\ last.log[1].old = TaggingStrategy
                    /\ last.log[1].before = Pre.items

\* T was stored over a fixnum and is what the position now shows, while
\* another position still shows a fixnum
C15_Witness ==
    /\ OnTagging /\ last.vals = <<wrapped_tagged_value>>
    /\ Pre.items[last.i + 1] = Fix(1)
    /\ Post.kind = TaggingStrategy
    /\ Post.items[last.i + 1] = wrapped_tagged_value
    /\ \E k \in 1..Len(Post.items) : Post.items[k] = Fix(1)

OnWeak == last.h = 1 /\ Pre.kind = WeakGenericStrategy

\* what a slot holding a weak reference is to show
Resolved(slot) == IF slot.alive THEN slot.ref ELSE default_value(WeakGenericStrategy)

\* items with every occurrence of x replaced by the default value
RECURSIVE Forget(_, _)
Forget(items, x) ==
    IF items = <<>> THEN <<>>
    ELSE <<IF Head(items) = x THEN default_value(WeakGenericStrategy) ELSE Head(items)>>
             \o Forget(Tail(items), x)

\* C16: a WeakGeneric instance shows at every position the object stored
\* there while that object is alive and the default value once it has been
\* reclaimed.  A store is read back until the object is reclaimed; the
\* reclamation of an object x turns the positions holding x into the
\* default value and changes neither the size, the kind nor any other
\* position; fetch of a valid index never fails.
C16_WeakGeneric ==
    /\ (Built(1) /\ Kind(1) = WeakGenericStrategy) =>
            \A k \in 1..Size(1) : Now[1].items[k] = Resolved(heap[strategy[1]].storage[k])
    /\ (OnWeak /\ last.op = "fetch" /\ ~OutOfRange(Len(Pre.items), last.i)) =>
            last.err = NoErr /\ last.ret = Pre.items[last.i + 1]
    /\ (OnWeak /\ last.op = "store" /\ ~OutOfRange(Len(Pre.items), last.i)) =>
            /\ last.err = NoErr /\ Post.kind = WeakGenericStrategy
            /\ Post.items = ExpStore(Pre.items, last.i, last.vals[1])
    /\ (OnWeak /\ last.op = "reclaim") =>
            /\ last.err = NoErr /\ Post.kind = WeakGenericStrategy
            /\ Len(Post.items) = Len(Pre.items)
            /\ Post.items = Forget(Pre.items, last.vals[1])

\* a fetch returned the default value for a reclaimed object while another
\* position still holds a live one
C16_Witness ==
    /\ OnWeak /\ last.op = "fetch" /\ last.err = NoErr
    /\ ~heap[strategy[1]].storage[last.i + 1].alive
    /\ heap[strategy[1]].storage[last.i + 1].ref = Fix(1)
    /\ last.ret = default_value(WeakGenericStrategy)
    /\ \E k \in 1..Size(1) : Now[1].items[k] = Flo(1)

\* -------------------------------------------- construction of a registry
\* StrategyFactory.__init__ over any generalization graph of the four
\* registered classes: each class declares any set of the classes as its
\* generalizations, listed in the order of Canon.
Canon == <<EmptyStrategy, FloatStrategy, IntStrategy, ObjectStrategy>>

RECURSIVE Listed(_, _)
Listed(S, k) ==
    IF k > Len(Canon) THEN <<>>
    ELSE (IF Canon[k] \in S THEN <<Canon[k]>> ELSE <<>>) \o Listed(S, k + 1)

GenLists == {Listed(S, 1) : S \in SUBSET Kinds}
Graphs == [Kinds -> GenLists]

\* as StrategyFactory_init, the cycle search looking at the first class only
StrategyFactory_init_first(G, classes) ==
    IF get_generalization_depth(G, classes[1], {}).cycle
    THEN [err |-> "Cycle in generalization-tree", strategies |-> <<>>]
    ELSE [err |-> NoErr, strategies |-> order_strategies(G, classes, 1, <<>>)]

\* StrategyFactory.__init__: the sort computes the key of every class
\* first; an exception raised by a key leaves the factory unbuilt
StrategyFactory_init(G, classes) ==
    IF \E k \in 1..Len(classes) : get_generalization_depth(G, classes[k], {}).cycle
    THEN [err |-> "Cycle in generalization-tree", strategies |-> <<>>]
    ELSE [err |-> NoErr, strategies |-> order_strategies(G, classes, 1, <<>>)]

InitRegistry ==
    /\ heap = <<NoInstance, NoInstance>>
    /\ strategy = <<0, 0>>
    /\ last = [Call("none", 0, 0, 0, <<>>) EXCEPT !.pre = <<NoView, NoView>>]
    /\ pc = "idle"
    /\ frame = NoFrame
    /\ indexing = Unchecked
    /\ probe \in {[graph |-> G, registry |-> <<>>, err |-> NoErr, typ |-> "pending"] :
                     G \in Graphs}

\* StrategyFactory(root_class)
Build ==
    /\ probe.typ = "pending"
    /\ LET r == StrategyFactory_init(probe.graph, all_strategy_classes)
       IN probe' = [probe EXCEPT !.registry = r.strategies, !.err = r.err,
                                 !.typ = IF r.err = NoErr THEN "built" ELSE "failed"]
    /\ UNCHANGED <<heap, strategy, last, pc, frame, indexing>>

\* factory.strategy_type_for([v]) on the built factory
Lookup(v) ==
    /\ probe.typ \notin {"pending", "failed"}
    /\ probe' = [probe EXCEPT !.typ = strategy_type_for(probe.registry, <<v>>)]
    /\ UNCHANGED <<heap, strategy, last, pc, frame, indexing>>

NextRegistry ==
    \/ Build
    \/ \E v \in Values : Lookup(v)

SpecRegistry == InitRegistry /\ [][NextRegistry]_vars

\* ----------------------------------------------------- the registry claims
\* depth of a kind: 0 without generalizations, else 1 + the largest depth
\* of its direct generalizations (defined on graphs without cycles)
RECURSIVE Depth(_, _)
RECURSIVE MaxDepth(_, _, _)
Depth(G, s) == IF G[s] = <<>> THEN 0 ELSE 1 + MaxDepth(G, G[s], 1)

MaxDepth(G, gens, k) ==
    IF k > Len(gens) THEN 0 ELSE Max(Depth(G, gens[k]), MaxDepth(G, gens, k + 1))

Direct(G, k) == {G[k][p] : p \in 1..Len(G[k])}

\* the transitive closure of the generalization lists of the kinds in S
RECURSIVE Closure(_, _)
Closure(G, S) ==
    LET T == S \cup UNION {Direct(G, k) : k \in S}
    IN IF T = S THEN S ELSE Closure(G, T)

Reachable(G, k) == Closure(G, Direct(G, k))

Position(registry, k) == CHOOSE p \in 1..Len(registry) : registry[p] = k

RegistryBuilt == probe.typ \notin {"pending", "failed"}

C17_Sorted ==
    RegistryBuilt =>
        LET G == probe.graph
            reg == probe.registry
        IN /\ Len(reg) = Cardinality(Kinds) /\ Injective(reg)
           /\ \A p, q \in 1..Len(reg) : p < q => Depth(G, reg[p]) >= Depth(G, reg[q])
           /\ \A k \in Kinds : \A g \in Direct(G, k) : Position(reg, k) < Position(reg, g)
           /\ (\A k \in Kinds \ {ObjectStrategy} : ObjectStrategy \in Reachable(G, k))
                    => reg[Len(reg)] = ObjectStrategy
           /\ G = Generalizations =>
                    /\ reg = <<EmptyStrategy, IntStrategy, FloatStrategy, ObjectStrategy>>
                    /\ reg = strategies
                    /\ Depth(G, EmptyStrategy) = 2 /\ Depth(G, ObjectStrategy) = 0
                    /\ Depth(G, IntStrategy) = 1 /\ Depth(G, FloatStrategy) = 1

\* C17: the registry a construction produces lists the kinds by depth,
\* largest first (depth 0 without generalizations, else 1 + the largest
\* depth of the direct generalizations): every kind stands before each of
\* its direct generalizations and a catch-all every other kind reaches
\* stands last; the registered lattice gives Empty (2), Int, Float (1),
\* Object (0).  No step after the construction changes the order.
C17_RegistryOrder ==
    /\ []C17_Sorted
    /\ [][RegistryBuilt => probe'.registry = probe.registry]_vars

\* the registered lattice was built and a lookup has run on it
C17_Witness ==
    /\ probe.typ = IntStrategy
    /\ probe.graph = Generalizations
    /\ probe.registry = <<EmptyStrategy, IntStrategy, FloatStrategy, ObjectStrategy>>

\* the graph has a cycle that a registered kind reaches: some kind is among
\* its own transitive generalizations
HasCycle(G) == \E k \in Kinds : k \in Reachable(G, k)

\* C18: the construction of a registry over a graph with a cycle, a
\* self-loop included, fails with the cycle error and produces no order.
C18_CycleRejected ==
    (probe.typ # "pending" /\ HasCycle(probe.graph)) =>
        /\ probe.typ = "failed"
        /\ probe.err = "Cycle in generalization-tree"
        /\ probe.registry = <<>>

\* the construction failed on a graph whose only cycle is a self-loop of
\* IntStrategy, which the first registered classes do not reach
C18_Witness ==
    /\ probe.typ = "failed"
    /\ probe.graph[IntStrategy] = <<IntStrategy>>
    /\ probe.graph[ObjectStrategy] = <<>>
    /\ probe.graph[EmptyStrategy] = <<FloatStrategy>>
    /\ probe.graph[FloatStrategy] = <<ObjectStrategy>>

DeclaredLatticeBuilt == RegistryBuilt /\ probe.graph = Generalizations

\* C19 as stated: for every registered kind K (Empty, Int, Float, Object)
\* the transitive closure of K's declared generalizations contains a kind
\* whose check_can_handle accepts every value.
C19_CatchAllInClosure ==
    DeclaredLatticeBuilt =>
        \A K \in {probe.registry[p] : p \in 1..Len(probe.registry)} :
            \E c \in Reachable(probe.graph, K) : CatchAll(c)

\* C19 amended: every registered kind either accepts every value itself or
\* has such a kind in the transitive closure of its declared
\* generalizations; Object, which declares none, is the former, and Empty,
\* Int and Float are the latter.
C19_CatchAllReachable ==
    DeclaredLatticeBuilt =>
        /\ \A K \in {probe.registry[p] : p \in 1..Len(probe.registry)} :
                \/ CatchAll(K)
                \/ \E c \in Reachable(probe.graph, K) : CatchAll(c)
        /\ \A K \in {EmptyStrategy, IntStrategy, FloatStrategy} :
                ~CatchAll(K) /\ \E c \in Reachable(probe.graph, K) : CatchAll(c)
        /\ CatchAll(ObjectStrategy) /\ Reachable(probe.graph, ObjectStrategy) = {}

\* on the registry of the declared lattice a lookup ended at the catch-all
C19_Witness ==
    /\ DeclaredLatticeBuilt
    /\ probe.typ = ObjectStrategy
    /\ CatchAll(probe.typ)

Classified == probe.typ # "pending"

\* C20: for any registry, one without a catch-all included,
\* strategy_type_for(objects) either fails with the configuration error or
\* returns a kind whose check_can_handle accepts every element of objects.
C20_NeverWrongKind ==
    Classified => \/ probe.typ = NoKind
                  \/ Accepts(probe.typ, probe.objects)

\* what holds of the code: a kind is returned and accepts every element
\* whenever the registry holds a catch-all
C20_WithCatchAll ==
    (Classified /\ \E p \in 1..Len(probe.registry) : CatchAll(probe.registry[p])) =>
        /\ probe.typ # NoKind
        /\ Accepts(probe.typ, probe.objects)
\* ------------------------------------------ a switch to any chosen kind
\* factory.switch_strategy(host.strategy, T) called on a host whose kind is
\* array-backed, for any array-backed T; new_element keeps its default
SwitchTo(h, T) ==
    /\ pc = "idle" /\ Built(h)
    /\ Kind(h) \in ArrayBacked
    /\ Commit(switch_strategy(World, strategy[h], T, None), Call("switch", h, 0, 0, <<>>))

NextSwitch ==
    \/ \E items_w \in Lists : New(items_w)
    \/ \E T \in ArrayBacked : SwitchTo(1, T)

SpecSwitch == Init /\ [][NextSwitch]_vars

SwitchedTo == last.op = "switch"

\* C21: switch_strategy(old, T) between any two array-backed kinds returns
\* without error and leaves the host's current strategy holding exactly the
\* elements old held, in the same order, also when T cannot represent an
\* element of old and escalates during the copy.
C21_ConvertAnyPair ==
    SwitchedTo => /\ last.err = NoErr
                  /\ Post.items = Pre.items

\* what holds of the code: a target that accepts every element of old
\* becomes the host's kind and holds the same elements
C21_ConvertRepresentable ==
    (SwitchedTo /\ Accepts(last.log[Len(last.log)].new, Pre.items)) =>
        /\ last.err = NoErr
        /\ Post.items = Pre.items

\* what holds of the code: the switch returns, the size is kept, and the
\* host ends in the requested kind or, after an escalation, in Object
C21_ConvertShape ==
    SwitchedTo => /\ last.err = NoErr
                  /\ Len(Post.items) = Len(Pre.items)
                  /\ Post.kind \in ArrayBacked
\* ------------------------------------------------------------ pop
\* strategy.pop(i) on a collection of any library kind under either
\* indexing policy; an index outside [0, size) is passed only where the
\* code defines the outcome
LibPop(i) ==
    /\ pc = "idle" /\ Built(1)
    /\ InBounds(1, i) \/ indexing = Checked \/ Kind(1) = EmptyStrategy
    /\ LET W == pop(World, strategy[1], i)
       IN Commit(W, [Call("pop", 1, i, 0, <<>>) EXCEPT
                        !.ret = IF W.err = NoErr THEN pop_value(World, strategy[1], i)
                                ELSE w_nil])

NextPop ==
    \/ \E kind \in LibKinds, sz \in 0..MaxLibSize : LibNew(kind, sz)
    \/ \E i \in Indexes, v \in Values : LibStore(i, v)
    \/ \E i \in Indexes : LibPop(i)

SpecPop == InitLib /\ [][NextPop]_vars

Popped == last.op = "pop" /\ 0 <= last.i /\ last.i < Len(Pre.items)

\* C22: under either indexing policy, pop(i) with 0 <= i < size returns the
\* element that was at position i, the last position included, takes it
\* out and keeps the other elements in their order.
C22_Pop ==
    Popped => /\ last.err = NoErr
              /\ last.ret = Pre.items[last.i + 1]
              /\ Post.items = ExpDelete(Pre.items, last.i, last.i + 1)

\* what holds of the code: pop does all of this wherever the indexing is
\* unchecked or i is not the last index
C22_PopInside ==
    (Popped /\ (indexing = Unchecked \/ last.i + 1 < Len(Pre.items))) =>
        /\ last.err = NoErr
        /\ last.ret = Pre.items[last.i + 1]
        /\ Post.items = ExpDelete(Pre.items, last.i, last.i + 1)

\* what holds of the code: pop of the last index under checked indexing
\* raises IndexError and leaves the collection as it was
C22_PopLastChecked ==
    (Popped /\ indexing = Checked /\ last.i + 1 = Len(Pre.items)) =>
        /\ last.err = "IndexError"
        /\ Post = Pre
\* ------------------------------------------ the lifetime of one host array
\* One host from its construction on, with the strategy calls topaz makes
\* on it; probe records the lifetime: the kind the host was constructed
\* with, the number of switches logged since, and whether every call after
\* the construction was an insert or an append.
LifeValues == {Fix(1), Flo(1), w_nil}
LifeLists == SeqsUpTo(LifeValues, MaxLibSize)

NoLife == [born |-> NoKind, switches |-> 0, grown |-> TRUE]

InitLife ==
    /\ heap = <<NoInstance, NoInstance>>
    /\ strategy = <<0, 0>>
    /\ last = [Call("none", 0, 0, 0, <<>>) EXCEPT !.pre = <<NoView, NoView>>]
    /\ pc = "idle"
    /\ frame = NoFrame
    /\ probe = NoLife
    /\ indexing = Unchecked

CommitLife(W, call) ==
    /\ heap' = CompactHeap(W)
    /\ strategy' = CompactStrategy(W)
    /\ last' = [call EXCEPT !.log = W.log, !.err = W.err]
    /\ probe' = [born |-> IF call.op = "new" THEN W.heap[W.strategy[1]].kind
                          ELSE probe.born,
                 switches |-> probe.switches + Len(W.log),
                 grown |-> probe.grown /\ call.op \in {"new", "insert", "append"}]
    /\ UNCHANGED <<pc, frame, indexing>>

\* W_ArrayObject(space, items_w)
LifeNew(items_w) ==
    /\ ~Built(1)
    /\ CommitLife(W_ArrayObject_init(World, 1, items_w), Call("new", 1, 0, 0, items_w))

\* self.strategy.store(i, v)
LifeStore(i, v) ==
    /\ Built(1)
    /\ i < Size(1) \/ Kind(1) = EmptyStrategy
    /\ CommitLife(store(World, strategy[1], i, v), Call("store", 1, i, 0, <<v>>))

\* self.strategy.insert(i, list_w)
LifeInsert(i, list_w) ==
    /\ Built(1)
    /\ i <= Size(1) + 1
    /\ Size(1) + Len(list_w) <= MaxLibSize
    /\ CommitLife(insert(World, strategy[1], i, list_w), Call("insert", 1, i, 0, list_w))

\* self.strategy.append(list_w)
LifeAppend(list_w) ==
    /\ Built(1)
    /\ Size(1) + Len(list_w) <= MaxLibSize
    /\ CommitLife(append(World, strategy[1], list_w), Call("append", 1, Size(1), 0, list_w))

\* self.strategy.delete(start, end)
LifeDelete(start, end) ==
    /\ Built(1)
    /\ start <= end /\ end <= Size(1)
    /\ CommitLife(delete(World, strategy[1], start, end), Call("delete", 1, start, end, <<>>))

\* self.strategy.pop(i)
LifePop(i) ==
    /\ Built(1)
    /\ i < Size(1) \/ Kind(1) = EmptyStrategy
    /\ LET W == pop(World, strategy[1], i)
       IN CommitLife(W, [Call("pop", 1, i, 0, <<>>) EXCEPT
                            !.ret = IF W.err = NoErr THEN pop_value(World, strategy[1], i)
                                    ELSE w_nil])

NextLife ==
    \/ \E items_w \in LifeLists : LifeNew(items_w)
    \/ \E i \in 0..MaxLibSize, v \in LifeValues : LifeStore(i, v)
    \/ \E i \in 0..(MaxLibSize + 1), list_w \in LifeLists : LifeInsert(i, list_w)
    \/ \E list_w \in LifeLists : LifeAppend(list_w)
    \/ \E start \in 0..MaxLibSize, end \in 0..MaxLibSize : LifeDelete(start, end)
    \/ \E i \in 0..MaxLibSize : LifePop(i)

SpecLife == InitLife /\ [][NextLife]_vars
\* ------------------------------------------------------ the lifetime claims
Escalating == last.op \in {"store", "insert", "append"}

WithinDepth == Built(1) => probe.switches <= Depth(Generalizations, probe.born)

\* C23: every store, insert or append on a host returns without an error
\* (none dead-ends with 'Could not find generalized strategy', none is
\* escalated out of Object), and over the lifetime of the host the number
\* of switches is at most the generalization depth of its first kind.
C23_Escalation ==
    /\ Escalating => last.err = NoErr
    /\ WithinDepth

\* what holds of the code: the only call that does not return is the
\* insert or append of no value into an Empty host, and the number of
\* switches stays within the depth
C23_EscalationBounded ==
    /\ (Escalating /\ last.err # NoErr) =>
            /\ last.err = "IndexError"
            /\ Pre.kind = EmptyStrategy
            /\ last.op \in {"insert", "append"}
            /\ last.vals = <<>>
    /\ WithinDepth
    /\ probe.switches <= 2

\* a host constructed Empty that has switched twice and is Object now
C23_TwoSwitches ==
    /\ probe.born = EmptyStrategy
    /\ probe.switches = 2
    /\ Now[1].kind = ObjectStrategy
LatticeDepth(kind) == Depth(Generalizations, kind)

\* every switch an operation logged went from a kind to one of its declared
\* generalizations, the first from kind from and the last to kind to
AlongEdges(events, from, to) ==
    /\ \A k \in 1..Len(events) :
            /\ events[k].new \in Direct(Generalizations, events[k].old)
            /\ events[k].old = IF k = 1 THEN from ELSE events[k - 1].new
    /\ to = IF events = <<>> THEN from ELSE events[Len(events)].new

\* C24: in every step of a host's life the kind changes only by switches
\* along declared generalization edges, so its generalization depth never
\* increases; delete and pop leave the kind as it is, also when they empty
\* the collection, and an Object host stays Object.
C24_KindOnlyGeneralizes ==
    [][Built(1) =>
        /\ AlongEdges(last'.log, Kind(1), heap'[strategy'[1]].kind)
        /\ LatticeDepth(heap'[strategy'[1]].kind) <= LatticeDepth(Kind(1))
        /\ last'.op \in {"delete", "pop"} => heap'[strategy'[1]].kind = Kind(1)
        /\ Kind(1) = ObjectStrategy => heap'[strategy'[1]].kind = ObjectStrategy]_vars

\* an Int host emptied by delete(0, size) is still an Int host
C24_Witness ==
    /\ last.op = "delete"
    /\ Pre.kind = IntStrategy /\ Pre.items # <<>>
    /\ Now[1].kind = IntStrategy /\ Now[1].items = <<>>
\* ------------------------------------------------------- representability
\* C25: between two operations on a host, every element fetch_all() of the
\* host's current strategy returns is one that check_can_handle of the
\* strategy's kind accepts: an Empty host shows no element, an Int host
\* only fixnums, a Float host only floats.
C25_Representable ==
    \A h \in Hosts : Built(h) => Accepts(Kind(h), fetch_all(heap[strategy[h]]))

\* a Float host that took a float by store and still holds elements
C25_Witness ==
    /\ last.op = "store" /\ last.err = NoErr
    /\ Pre.kind = FloatStrategy
    /\ Kind(1) = FloatStrategy
    /\ Len(Now[1].items) >= 2
\* --------------------------------------------- online and batch classification
\* the host was constructed and has since seen inserts and appends only
OnlyGrown == Built(1) /\ probe.grown

\* C26: a host constructed from any sample and changed by inserts and
\* appends only is of the kind strategy_type_for gives for the contents it
\* now holds, whatever the order and the grouping of the inserts.
C26_OnlineIsBatch ==
    OnlyGrown => Kind(1) = strategy_type_for(strategies, Now[1].items)

\* an Empty host that inserts took to Object in two switches
C26_Witness ==
    /\ OnlyGrown
    /\ last.op \in {"insert", "append"}
    /\ probe.born = EmptyStrategy
    /\ probe.switches = 2
    /\ Kind(1) = ObjectStrategy
\* ------------------------------------------------- graphs without a cycle
Constructed == probe.typ # "pending"

ReachedFrom(G, k) == {k} \cup Reachable(G, k)

\* a kind that has generalizations is reached along two different paths:
\* the paths part at some kind j and meet again in m
Diamond(G) ==
    \E j \in Kinds, m \in Kinds : \E a \in Direct(G, j), b \in Direct(G, j) :
        /\ a # b
        /\ G[m] # <<>>
        /\ m \in ReachedFrom(G, a) \cap ReachedFrom(G, b)

DepthsAssigned(G) == \A k \in Kinds : SortKey(G, k) = Depth(G, k)

\* C27: over every graph without a cycle, a graph with a diamond included,
\* the construction of the registry completes without reporting a cycle
\* and the depth it computes for a kind is 0 without generalizations, else
\* 1 + the largest depth of its direct generalizations.
C27_AcyclicBuilds ==
    (Constructed /\ ~HasCycle(probe.graph)) =>
        /\ probe.err = NoErr
        /\ DepthsAssigned(probe.graph)

\* what holds of the code: over a graph without a cycle the construction
\* fails exactly when the graph has a diamond, and where it completes the
\* depths are the defined ones
C27_AcyclicNoDiamond ==
    (Constructed /\ ~HasCycle(probe.graph)) =>
        /\ probe.err # NoErr <=> Diamond(probe.graph)
        /\ probe.err = NoErr => DepthsAssigned(probe.graph)
====
